---- MODULE Spec2Model ----
(***************************************************************************)
(* Model of the sandbox orchestration workflows                            *)
(* (src/apps/sandbox_temporal/src/workflows).                              *)
(*                                                                         *)
(* SandboxOrchestrationWorkflow.run is a coroutine of a durable workflow   *)
(* runtime: it runs atomically from one await to the next, and signal      *)
(* handlers run between those steps.  Every await of run is a value of pc: *)
(*   "launch"     top of an iteration of the launch loop (line 72)         *)
(*   "pause_wait" workflow.wait_condition of lines 80-83                   *)
(*   "slot_wait"  workflow.wait_condition of lines 87-90                   *)
(*   "starting"   await workflow.start_child_workflow (line 113)           *)
(*   "join"       await handle.result() (line 133)                         *)
(*   "metrics"    await workflow.execute_activity(record_metrics) (149)    *)
(*   "returned"   run has returned its OrchestrationResult (line 175)      *)
(*   "raised"     run was left by an exception nothing catches             *)
(* Costs are bounded non-negative integers.                                *)
(***************************************************************************)
EXTENDS Integers, Sequences, FiniteSets, TLC

\* ---------------------------------------------------------------- bounds
MaxForks == 3
MaxConcurrent == 3
MaxCost == 1
MaxSignals == 2
MaxBudget == 2
MaxLedger == 2
MaxOrphans == 1
MaxFaults == 1

\* ------------------------------------------------------------- data model
NoValue == "None"

\* An Optional value is a sequence of at most one element: None is the
\* empty one.  Truthy is Python's truth value of an Optional number or id.
None == <<>>
Some(x) == <<x>>
Truthy(opt) == opt # None /\ opt[1] # 0

\* ForkStatus (schemas.py)
PENDING == "pending"
RUNNING == "running"
SUCCESS == "success"
FAILED == "failed"
TIMEOUT == "timeout"
CANCELLED == "cancelled"
BUDGET_EXCEEDED == "budget_exceeded"

ForkStatus == {PENDING, RUNNING, SUCCESS, FAILED, TIMEOUT, CANCELLED, BUDGET_EXCEEDED}

\* ForkResult(fork_num, status, cost_usd = 0.0, error = None)
ForkResult(fork_num, status, cost_usd, error) ==
    [fork_num |-> fork_num, status |-> status, cost_usd |-> cost_usd, error |-> error]

\* Placeholder of a ForkResult that does not exist yet (Python's None).
NoResult == ForkResult(0, PENDING, 0, NoValue)

\* Placeholder of the OrchestrationResult before run returns (None).
NoReturn ==
    [total_forks |-> 0, successful |-> 0, failed |-> 0, total_cost_usd |-> 0,
     results |-> <<>>]

\* The exceptions a child workflow handle can raise: the child's retries
\* are exhausted, or its execution timeout is reached.
ChildErrors == {"ChildWorkflowError: retries exhausted",
                "ChildWorkflowError: execution timeout"}

\* str(e) of the exception caught at line 155: its message without the type
\* prefix.
ExcMessage(e) ==
    IF e = "ChildWorkflowError: retries exhausted" THEN "retries exhausted"
    ELSE IF e = "ChildWorkflowError: execution timeout" THEN "execution timeout"
    ELSE IF e = "ActivityError: record_metrics" THEN "record_metrics"
    ELSE e

VARIABLES
    num_forks,          \* config.num_forks
    max_concurrent,     \* config.max_concurrent
    pc,                 \* position of run
    i,                  \* loop variable of the launch loop (0-based)
    fork_handles,       \* sequence of fork_num, in launch order
    j,                  \* index into fork_handles of the join loop (1-based)
    results,            \* self.results
    forks_completed,    \* self.forks_completed
    forks_failed,       \* self.forks_failed
    forks_in_progress,  \* self.forks_in_progress
    total_cost,         \* self.total_cost
    paused,             \* self.paused
    cancelled,          \* self.cancelled
    pending,            \* the result awaited by record_metrics (local `result`)
    ret,                \* the OrchestrationResult run returned, or NoReturn
    exc,                \* the exception that left run, or NoValue
    fork,               \* fork_num -> state of the Fork child workflow
    sigLog,             \* signals clients sent to the orchestrator, in order
    budget_limit_usd,   \* config.budget_limit_usd (Optional)
    fk,                 \* fork_num -> the ForkWorkflow instance and its run
    cost_tracker,       \* _cost_tracker[id of the orchestrator]
    external_spend,     \* history: what callers other than the forks of the
                        \* job added to cost_tracker
    sandboxes,          \* the sandboxes of the provider, by sandbox id
    faults,             \* how many more calls of the provider can fail
    janitor,            \* the ScheduledCleanupWorkflow instance and its run
    client,             \* the FireflyClient instance and its _request call
    now,                \* time.time(), in seconds
    replay              \* executions of ForkWorkflow.run on one history

vars == <<num_forks, max_concurrent, pc, i, fork_handles, j, results,
          forks_completed, forks_failed, forks_in_progress, total_cost,
          paused, cancelled, pending, ret, exc, fork, sigLog,
          budget_limit_usd, fk, cost_tracker, external_spend, sandboxes,
          faults, janitor, client, now, replay>>

cfgVars == <<num_forks, max_concurrent, budget_limit_usd>>
\* What no step of the workflows touches.
auxVars == <<client, now, replay>>
ledgerVars == <<cost_tracker, external_spend>>
\* What no step of the orchestrator touches.
providerVars == <<sandboxes, faults>>
forkVars == <<fk, ledgerVars, providerVars, janitor>>
counterVars == <<results, forks_completed, forks_failed, total_cost>>
flagVars == <<paused, cancelled, sigLog>>

\* State of a Fork child, as the parent sees it.
ForkIdle == [state |-> "idle", result |-> NoResult, error |-> NoValue]
ForkRunning == [state |-> "running", result |-> NoResult, error |-> NoValue]

\* ScheduledCleanupWorkflow.__init__ (cleanup_workflow.py:29-32); jpc is the
\* position of run: "idle" before the workflow is started, the name of the
\* activity it awaits, "sleep" or "returned".  orphans is the local of run,
\* summary what run returned.
JanitorInit ==
    [jpc |-> "idle", cleanup_count |-> 0, should_stop |-> FALSE,
     orphans |-> {}, summary |-> None]

\* ForkWorkflow.__init__ (fork_workflow.py:48-53) and the locals of run.
\* fpc is the position of run: "pending" before it starts, the name of the
\* activity it awaits, or "done".  trace is the sequence of the activities
\* run has scheduled.
ForkInit ==
    [fpc |-> "pending", status |-> PENDING, sandbox_id |-> None,
     cost_usd |-> 0, should_cancel |-> FALSE, current_spend |-> None,
     create_attempts |-> <<>>, health |-> None, agent_result |-> None,
     caught |-> None,
     trace |-> <<>>, result |-> NoResult]

\* The sandbox ids of the provider: the sandbox the create_sandbox activity
\* of fork f creates has the id f, the others are sandboxes that callers
\* other than the workflows created, with no metadata.
SandboxIds == 1..(MaxForks + MaxOrphans)

\* A sandbox the provider has not created yet.
NoSandbox ==
    [state |-> "absent", old |-> FALSE, temporal_workflow_id |-> None, kills |-> 0]

\* Sandbox.create(metadata = ...): a running sandbox, younger than any
\* max_age; temporal_workflow_id is the metadata key create_sandbox stamps
\* (sandbox_activities.py:91-93), None when the sandbox has no such key.
NewSandbox(temporal_workflow_id) ==
    [state |-> "running", old |-> FALSE,
     temporal_workflow_id |-> temporal_workflow_id, kills |-> 0]

\* Sandbox.kill(sandbox_id) on the sandboxes S: when the provider's call
\* goes through (ok) a running sandbox is gone for good; when it raises, or
\* the sandbox is not running, nothing changes.
SandboxKill(S, sandbox_id, ok) ==
    IF ok /\ S[sandbox_id].state = "running"
    THEN [S EXCEPT ![sandbox_id].state = "gone", ![sandbox_id].kills = @ + 1]
    ELSE S

\* cleanup_sandbox (sandbox_activities.py:194-222): Sandbox.kill, and True
\* whether it returned or raised.
cleanup_sandbox(S, sandbox_id, ok) ==
    [sandboxes |-> SandboxKill(S, sandbox_id, ok), returned |-> TRUE]

\* ------------------------------------------------------ FireflyClient

\* FireflyClient.__init__ (client.py:137-169) with max_retries; cpc is the
\* position of the _request call: "idle" with no call, "auth_post" and
\* "api_post" awaiting the response of the POST to AUTH_URL or to the API
\* endpoint, "sleep" in asyncio.sleep, "returned" or "raised".  retry_count
\* and force_refresh are the arguments of the running _request and
\* _authenticate; posts and auth_posts count the POSTs of the call; bearer
\* is the token of the Authorization header of its last POST; response and
\* auth_response are the last responses received.
NewClient(max_retries) ==
    [cpc |-> "idle", max_retries |-> max_retries,
     access_token |-> None, token_expiry |-> 0,
     retry_count |-> 0, force_refresh |-> FALSE,
     posts |-> 0, auth_posts |-> 0, bearer |-> None,
     response |-> None, auth_response |-> None, error |-> None]

\* The default max_retries of the constructor (client.py:142).
DefaultMaxRetries == 3

\* A client nobody calls, the clock at 0, and no replay.
AuxIdle ==
    /\ client = NewClient(DefaultMaxRetries)
    /\ now = 0
    /\ replay = [history |-> None, executions |-> <<>>]

\* The budgets a job is configured with: None (the default), 0, or more.
Budgets == {None} \cup {Some(b) : b \in 0..MaxBudget}

\* SandboxOrchestrationWorkflow.__init__ and the start of run (lines 61-70),
\* for a job with the budget b, on a provider of which n calls can fail.
InitJob(b, n) ==
    /\ budget_limit_usd = b
    /\ fk = [f \in 1..MaxForks |-> ForkInit]
    /\ cost_tracker = 0
    /\ external_spend = 0
    /\ sandboxes = [s \in SandboxIds |-> NoSandbox]
    /\ faults = n
    /\ janitor = JanitorInit
    /\ num_forks \in 1..MaxForks
    /\ max_concurrent \in 1..MaxConcurrent
    /\ pc = "launch"
    /\ i = 0
    /\ fork_handles = <<>>
    /\ j = 1
    /\ results = <<>>
    /\ forks_completed = 0
    /\ forks_failed = 0
    /\ forks_in_progress = 0
    /\ total_cost = 0
    /\ paused = FALSE
    /\ cancelled = FALSE
    /\ pending = NoResult
    /\ ret = NoReturn
    /\ exc = NoValue
    /\ fork = [f \in 1..MaxForks |-> ForkIdle]
    /\ sigLog = <<>>

\* A job with the default budget_limit_usd (schemas.py:30).
Init == InitJob(None, 0) /\ AuxIdle

\* ------------------------------------------------------------ launch loop

\* str(n) for a natural number n, as the sequence of its decimal digits.
RECURSIVE Str(_)
Str(n) ==
    LET Digit(d) == <<"0", "1", "2", "3", "4", "5", "6", "7", "8", "9">>[d + 1] IN
    IF n < 10 THEN <<Digit(n)>> ELSE Str(n \div 10) \o <<Digit(n % 10)>>

\* Mutant of fork_branch: the suffix is lost.
fork_branch_unsuffixed(branch, fork_num, n) == branch

\* fork_branch of lines 93-98 for config.branch = branch and
\* config.num_forks = n; strings are sequences of characters.
fork_branch(branch, fork_num, n) ==
    IF n > 1 THEN branch \o <<"-">> \o Str(fork_num) ELSE branch

\* The id of the child workflow of fork fork_num (line 116).
child_id(workflow_id, fork_num) ==
    workflow_id \o <<"-", "f", "o", "r", "k", "-">> \o Str(fork_num)

\* Mutant of PauseLoopCondition: the negation of cancelled is lost.
PauseLoopCondition_polarity == paused /\ cancelled

\* Line 79: the condition of the pause loop.
PauseLoopCondition == paused /\ ~cancelled

\* Mutant of SlotLoopCondition: the comparison is strict.
SlotLoopCondition_strict == forks_in_progress > max_concurrent

\* Line 86: the condition of the rate-limit loop.
SlotLoopCondition == forks_in_progress >= max_concurrent

\* Lines 92-123: build the ForkConfig and issue start_child_workflow for
\* fork_num = i + 1; run then awaits the start.
StartChild ==
    /\ fork' = [fork EXCEPT ![i + 1] = ForkRunning]
    /\ pc' = "starting"

\* Lines 85-123: the rate-limit loop, entered after the pause loop, and the
\* child start behind it.
SlotCheck ==
    IF SlotLoopCondition
    THEN /\ pc' = "slot_wait"
         /\ fork' = fork
    ELSE StartChild

\* Lines 78-123: the pause loop and what follows it.
PauseCheck ==
    IF PauseLoopCondition
    THEN /\ pc' = "pause_wait"
         /\ fork' = fork
    ELSE SlotCheck

\* Lines 175-183.
OrchestrationResult ==
    [total_forks |-> num_forks,
     successful |-> forks_completed,
     failed |-> forks_failed,
     total_cost_usd |-> total_cost,
     results |-> results]

\* Mutant of HasHandle: the join loop stops one handle early.
HasHandle_short(k) == k < Len(fork_handles)

\* Line 131: is there a k-th handle to join.
HasHandle(k) == k <= Len(fork_handles)

\* Entry to the join loop (line 131) at index k of fork_handles: await the
\* k-th handle, or, past the last one, return (lines 169-183).  The return
\* value is built from the counters as the step leaves them.
JoinFrom(k) ==
    IF HasHandle(k)
    THEN /\ pc' = "join"
         /\ j' = k
         /\ ret' = ret
    ELSE /\ pc' = "returned"
         /\ j' = k
         /\ ret' = OrchestrationResult'

\* Lines 72-76: the launch loop is over, or is left by the break.
LaunchLoopDone == i >= num_forks \/ cancelled

\* Lines 72-123: top of one iteration of the launch loop.
LaunchIteration ==
    /\ pc = "launch"
    /\ UNCHANGED <<cfgVars, auxVars, forkVars, i, fork_handles, counterVars, forks_in_progress,
                   flagVars, pending, exc>>
    /\ IF LaunchLoopDone
       THEN /\ JoinFrom(1)
            /\ fork' = fork
       ELSE /\ PauseCheck
            /\ UNCHANGED <<j, ret>>

\* The condition a wait_condition is waiting for (the lambdas of lines 81
\* and 88).
WaitCondition ==
    IF pc = "pause_wait" THEN ~paused \/ cancelled
    ELSE forks_in_progress < max_concurrent

\* wait_condition returns because its condition holds; the enclosing while
\* loop tests its own condition again and either waits again or goes on:
\* from the pause loop to the rate-limit loop, from the rate-limit loop to
\* the child start.
WaitConditionMet ==
    /\ pc \in {"pause_wait", "slot_wait"}
    /\ WaitCondition
    /\ IF pc = "pause_wait" THEN PauseCheck ELSE SlotCheck
    /\ UNCHANGED <<cfgVars, auxVars, forkVars, i, fork_handles, j, counterVars, forks_in_progress,
                   flagVars, pending, ret, exc>>

\* wait_condition reaches its timeout (10 s, line 82; 5 s, line 89) with the
\* condition still false: it raises asyncio.TimeoutError, which nothing in
\* run catches.
WaitConditionTimeout ==
    /\ pc \in {"pause_wait", "slot_wait"}
    /\ ~WaitCondition
    /\ pc' = "raised"
    /\ exc' = "TimeoutError"
    /\ UNCHANGED <<cfgVars, auxVars, forkVars, i, fork_handles, j, counterVars, forks_in_progress,
                   flagVars, pending, ret, fork>>

\* Lines 125-128: start_child_workflow has returned the handle.
ChildStarted ==
    /\ pc = "starting"
    /\ fork_handles' = Append(fork_handles, i + 1)
    /\ forks_in_progress' = forks_in_progress + 1
    /\ i' = i + 1
    /\ pc' = "launch"
    /\ UNCHANGED <<cfgVars, auxVars, forkVars, j, counterVars, flagVars, pending, ret, exc, fork>>

\* -------------------------------------------------------------- join loop

\* Mutant of AddCost: the cost of a fork that did not succeed is left out.
AddCost_success_only(result) ==
    IF result.status = SUCCESS THEN total_cost + result.cost_usd ELSE total_cost

\* Line 141.
AddCost(result) == total_cost + result.cost_usd

\* Lines 133-153: handle.result() returned a ForkResult.
JoinResult ==
    /\ pc = "join"
    /\ fork[fork_handles[j]].state = "returned"
    /\ LET result == fork[fork_handles[j]].result IN
        /\ results' = Append(results, result)
        /\ IF result.status = SUCCESS
           THEN /\ forks_completed' = forks_completed + 1
                /\ forks_failed' = forks_failed
           ELSE /\ forks_failed' = forks_failed + 1
                /\ forks_completed' = forks_completed
        /\ total_cost' = AddCost(result)
        /\ pending' = result
    /\ pc' = "metrics"
    /\ UNCHANGED <<cfgVars, auxVars, forkVars, i, fork_handles, j, forks_in_progress, flagVars,
                   ret, exc, fork>>

\* Mutant of ExceptBlock: the failure is counted but no result is recorded.
ExceptBlock_unrecorded(fork_num, e) ==
    /\ forks_failed' = forks_failed + 1
    /\ UNCHANGED <<results, forks_completed, total_cost>>

\* Lines 155-164: the except block, for fork_num and exception e.
ExceptBlock(fork_num, e) ==
    /\ forks_failed' = forks_failed + 1
    /\ results' = Append(results, ForkResult(fork_num, FAILED, 0, ExcMessage(e)))
    /\ UNCHANGED <<forks_completed, total_cost>>

\* Lines 166-167: the finally block, then the next iteration of the join loop.
FinallyBlock ==
    /\ forks_in_progress' = forks_in_progress - 1
    /\ JoinFrom(j + 1)

\* Lines 133, 155-167: handle.result() raised.
JoinChildRaise ==
    /\ pc = "join"
    /\ fork[fork_handles[j]].state = "raised"
    /\ ExceptBlock(fork_handles[j], fork[fork_handles[j]].error)
    /\ UNCHANGED <<cfgVars, auxVars, forkVars, i, fork_handles, flagVars, pending, exc, fork>>
    /\ FinallyBlock

\* Lines 149-153, 166-167: record_metrics completed.
MetricsOk ==
    /\ pc = "metrics"
    /\ pending' = NoResult
    /\ UNCHANGED <<cfgVars, auxVars, forkVars, i, fork_handles, counterVars, flagVars, exc, fork>>
    /\ FinallyBlock

\* Lines 149-167: execute_activity(record_metrics) raised an ActivityError,
\* caught by the except block of the same try statement.
MetricsRaise ==
    /\ pc = "metrics"
    /\ pending' = NoResult
    /\ ExceptBlock(fork_handles[j], "ActivityError: record_metrics")
    /\ UNCHANGED <<cfgVars, auxVars, forkVars, i, fork_handles, flagVars, exc, fork>>
    /\ FinallyBlock

\* ------------------------------------------------------------ Fork child

\* The ForkResult values ForkWorkflow.run returns (fork_workflow.py): the
\* agent's status and cost (line 164), BUDGET_EXCEEDED (line 86) or FAILED
\* (line 182), the last two with the default cost 0.
ForkOutcomes(f) ==
    {ForkResult(f, SUCCESS, c, NoValue) : c \in 0..MaxCost}
    \cup {ForkResult(f, FAILED, c, "fork error") : c \in 0..MaxCost}
    \cup {ForkResult(f, BUDGET_EXCEEDED, 0, "budget")}

\* ForkWorkflow.run returns.
ForkReturn(f) ==
    /\ fork[f].state = "running"
    /\ \E r \in ForkOutcomes(f) :
        fork' = [fork EXCEPT ![f] = [state |-> "returned", result |-> r, error |-> NoValue]]
    /\ UNCHANGED <<cfgVars, auxVars, forkVars, pc, i, fork_handles, j, counterVars,
                   forks_in_progress, flagVars, pending, ret, exc>>

\* The child workflow fails: retries exhausted or execution timeout
\* (retry_policy and execution_timeout of lines 117-122).
ForkRaise(f) ==
    /\ fork[f].state = "running"
    /\ \E e \in ChildErrors :
        fork' = [fork EXCEPT ![f] = [state |-> "raised", result |-> NoResult, error |-> e]]
    /\ UNCHANGED <<cfgVars, auxVars, forkVars, pc, i, fork_handles, j, counterVars,
                   forks_in_progress, flagVars, pending, ret, exc>>

\* ------------------------------------------------------ ForkWorkflow.run

\* ForkWorkflow.run (fork_workflow.py:55-206) runs atomically from one await
\* to the next; every await is the execute_activity of one activity, and the
\* step that follows it takes the activity's outcome: its return value or
\* the ActivityError raised once its retry policy gives up.

orchVars == <<pc, i, fork_handles, j, counterVars, forks_in_progress,
              flagVars, pending, ret, exc>>

\* await workflow.execute_activity(activity, ...): run schedules the
\* activity and waits for it.  The trace keeps the activity with the sandbox
\* id run passes to it (self.sandbox_id at lines 117, 129 and 197).
Await(l, activity) ==
    [l EXCEPT !.fpc = activity,
              !.trace = Append(@, [activity |-> activity,
                                   sandbox_id |-> l.sandbox_id])]

\* Mutant of ForkFinally: the sandbox is cleaned up only after a success.
ForkFinally_on_success(f, l, r) ==
    IF Truthy(l.sandbox_id) /\ r.status = SUCCESS
    THEN /\ fk' = [fk EXCEPT ![f] = [Await(l, "cleanup_sandbox") EXCEPT !.result = r]]
         /\ UNCHANGED fork
    ELSE /\ fk' = [fk EXCEPT ![f] = [l EXCEPT !.fpc = "done", !.result = r]]
         /\ fork' = [fork EXCEPT ![f] =
                        [state |-> "returned", result |-> r, error |-> NoValue]]

\* The finally block (lines 191-206) and the return of run, entered with the
\* locals l and the return value r: cleanup_sandbox is scheduled when
\* self.sandbox_id is set, otherwise run returns r at once.
ForkFinally(f, l, r) ==
    IF Truthy(l.sandbox_id)
    THEN /\ fk' = [fk EXCEPT ![f] = [Await(l, "cleanup_sandbox") EXCEPT !.result = r]]
         /\ UNCHANGED fork
    ELSE /\ fk' = [fk EXCEPT ![f] = [l EXCEPT !.fpc = "done", !.result = r]]
         /\ fork' = [fork EXCEPT ![f] =
                        [state |-> "returned", result |-> r, error |-> NoValue]]

\* Mutant of ForkExcept: the except block returns without the finally block.
ForkExcept_no_finally(f, l, e) ==
    /\ fk' = [fk EXCEPT ![f] =
                 [l EXCEPT !.status = FAILED, !.fpc = "done", !.caught = Some(e),
                           !.result = ForkResult(f, FAILED, l.cost_usd, "fork error")]]
    /\ fork' = [fork EXCEPT ![f] =
                   [state |-> "returned",
                    result |-> ForkResult(f, FAILED, l.cost_usd, "fork error"),
                    error |-> NoValue]]

\* The except block (lines 176-189) catches the exception e, then the
\* finally block.
ForkExcept(f, l, e) ==
    ForkFinally(f, [l EXCEPT !.status = FAILED, !.caught = Some(e)],
                ForkResult(f, FAILED, l.cost_usd, "fork error"))

\* Mutant of BudgetExceeded: the comparison is strict.
BudgetExceeded_strict(current_spend, budget) == current_spend > budget

\* Line 84: the admission test.
BudgetExceeded(current_spend, budget) == current_spend >= budget

\* Lines 66-82 and 94: run starts, sets RUNNING, and awaits get_current_spend
\* when config.budget_limit_usd is truthy, create_sandbox otherwise.
ForkRunStart(f) ==
    /\ fork[f].state = "running"
    /\ fk[f].fpc = "pending"
    /\ LET l == [fk[f] EXCEPT !.status = RUNNING] IN
         fk' = [fk EXCEPT ![f] =
                   IF Truthy(budget_limit_usd)
                   THEN Await(l, "get_current_spend")
                   ELSE Await(l, "create_sandbox")]
    /\ UNCHANGED <<cfgVars, auxVars, orchVars, fork, ledgerVars, providerVars, janitor>>

\* get_current_spend (observability_activities.py:97-108) returns the ledger
\* entry of the parent orchestrator; lines 84-94 of run.
GetCurrentSpendDone(f) ==
    /\ fork[f].state = "running"
    /\ fk[f].fpc = "get_current_spend"
    /\ LET l == [fk[f] EXCEPT !.current_spend = Some(cost_tracker)] IN
         IF BudgetExceeded(cost_tracker, budget_limit_usd[1])
         THEN ForkFinally(f, [l EXCEPT !.status = BUDGET_EXCEEDED],
                          ForkResult(f, BUDGET_EXCEEDED, 0, "budget"))
         ELSE /\ fk' = [fk EXCEPT ![f] = Await(l, "create_sandbox")]
              /\ UNCHANGED fork
    /\ UNCHANGED <<cfgVars, auxVars, orchVars, ledgerVars, providerVars, janitor>>

\* A failing call of the provider takes one of the faults of the behaviour.
\* What one attempt of create_sandbox meets: Sandbox.create succeeds or
\* not, and the error that ended the attempt, if any.  A structural error
\* (a bad template) or a transient one (network, provider) can come from
\* Sandbox.create; a transient one also from sbx.get_host, after the
\* provider created the sandbox (sandbox_activities.py:96-107).
CreateOutcomes ==
    {[created |-> TRUE, error |-> None],
     [created |-> FALSE, error |-> Some("structural")],
     [created |-> FALSE, error |-> Some("transient")],
     [created |-> TRUE, error |-> Some("transient")]}

\* The exception type create_sandbox raises for an error: its except block
\* wraps every exception (sandbox_activities.py:127-129).
CreateRaises(error) == "SandboxCreationError"

\* RetryPolicy of create_sandbox (fork_workflow.py:103-108).
CreateRetryPolicy ==
    [maximum_attempts |-> 3,
     non_retryable_error_types |-> {"SandboxCreationError"}]

\* The runtime schedules another attempt of an activity that raised
\* error_type in its attempt number `attempt`.
ShouldRetry(policy, error_type, attempt) ==
    /\ error_type \notin policy.non_retryable_error_types
    /\ attempt < policy.maximum_attempts

\* Mutant of CreateSandboxDone: a failure of create_sandbox is ignored.
CreateSandboxDone_unchecked(f) ==
    /\ fork[f].state = "running"
    /\ fk[f].fpc = "create_sandbox"
    /\ \E o \in CreateOutcomes :
         /\ o.error # None => faults > 0
         /\ faults' = IF o.error # None THEN faults - 1 ELSE faults
         /\ sandboxes' = IF o.created
                          THEN [sandboxes EXCEPT ![f] = NewSandbox(Some(f))]
                          ELSE sandboxes
         /\ fk' = [fk EXCEPT ![f] =
                      Await([fk[f] EXCEPT !.create_attempts = Append(@, o),
                                          !.sandbox_id =
                                IF o.error = None THEN Some(f) ELSE None],
                            "health_check")]
         /\ UNCHANGED fork
    /\ UNCHANGED <<cfgVars, auxVars, orchVars, ledgerVars, janitor>>

\* An attempt of create_sandbox ends: it returns a SandboxInfo (lines
\* 111-115), or raises and is retried under CreateRetryPolicy, or raises and
\* run gets the ActivityError.  The sandbox Sandbox.create made for fork f
\* has the id f and carries the id of the Fork workflow in its metadata.
CreateSandboxDone(f) ==
    /\ fork[f].state = "running"
    /\ fk[f].fpc = "create_sandbox"
    /\ \E o \in CreateOutcomes :
         LET l == [fk[f] EXCEPT !.create_attempts = Append(@, o)] IN
         /\ o.error # None => faults > 0
         /\ faults' = IF o.error # None THEN faults - 1 ELSE faults
         /\ sandboxes' = IF o.created
                          THEN [sandboxes EXCEPT ![f] = NewSandbox(Some(f))]
                          ELSE sandboxes
         /\ IF o.error = None
            THEN /\ fk' = [fk EXCEPT ![f] =
                              Await([l EXCEPT !.sandbox_id = Some(f)], "health_check")]
                 /\ UNCHANGED fork
            ELSE IF ShouldRetry(CreateRetryPolicy, CreateRaises(o.error[1]),
                                Len(l.create_attempts))
            THEN /\ fk' = [fk EXCEPT ![f] = l]
                 /\ UNCHANGED fork
            ELSE ForkExcept(f, l, CreateRaises(o.error[1]))
    /\ UNCHANGED <<cfgVars, auxVars, orchVars, ledgerVars, janitor>>

\* Mutant of HealthCheckDone: health.is_healthy is not tested.
HealthCheckDone_untested(f) ==
    /\ fork[f].state = "running"
    /\ fk[f].fpc = "health_check"
    /\ \E is_healthy \in BOOLEAN :
         LET l == [fk[f] EXCEPT !.health = Some(is_healthy)] IN
           /\ fk' = [fk EXCEPT ![f] = Await(l, "run_claude_agent")]
           /\ UNCHANGED fork
    /\ UNCHANGED <<cfgVars, auxVars, orchVars, ledgerVars, providerVars, janitor>>

\* health_check returns its HealthCheckResult (it never raises,
\* sandbox_activities.py:225-280); lines 121-137 of run.
HealthCheckDone(f) ==
    /\ fork[f].state = "running"
    /\ fk[f].fpc = "health_check"
    /\ \E is_healthy \in BOOLEAN :
         LET l == [fk[f] EXCEPT !.health = Some(is_healthy)] IN
           IF ~is_healthy
           THEN ForkExcept(f, l, "ApplicationError")
           ELSE /\ fk' = [fk EXCEPT ![f] = Await(l, "run_claude_agent")]
                /\ UNCHANGED fork
    /\ UNCHANGED <<cfgVars, auxVars, orchVars, ledgerVars, providerVars, janitor>>

\* The exceptions of run_claude_agent that reach run
\* (agent_activities.py:209-215).
AgentErrors == {"AgentTimeoutError", "AgentExecutionError"}

\* run_claude_agent returns an AgentResult (lines 153-174) or raises.
RunAgentDone(f) ==
    /\ fork[f].state = "running"
    /\ fk[f].fpc = "run_claude_agent"
    /\ \/ \E status \in {SUCCESS, FAILED}, cost_usd \in 0..MaxCost :
            ForkFinally(f,
                [fk[f] EXCEPT !.agent_result = Some([status |-> status, cost_usd |-> cost_usd]),
                              !.cost_usd = cost_usd,
                              !.status = status],
                ForkResult(f, status, cost_usd,
                           IF status = SUCCESS THEN NoValue ELSE "fork error"))
       \/ \E e \in AgentErrors : ForkExcept(f, fk[f], e)
    /\ UNCHANGED <<cfgVars, auxVars, orchVars, ledgerVars, providerVars, janitor>>

\* cleanup_sandbox ends, in a run whose finally block let the failure of
\* the cleanup out of run.
CleanupDone_raises(f) ==
    /\ fork[f].state = "running"
    /\ fk[f].fpc = "cleanup_sandbox"
    /\ \E ok \in BOOLEAN :
         /\ ~ok => faults > 0
         /\ faults' = IF ok THEN faults ELSE faults - 1
         /\ sandboxes' = cleanup_sandbox(sandboxes, fk[f].sandbox_id[1], ok).sandboxes
         /\ fork' = [fork EXCEPT ![f] =
                       IF ok
                       THEN [state |-> "returned", result |-> fk[f].result, error |-> NoValue]
                       ELSE [state |-> "raised", result |-> NoResult,
                             error |-> "ChildWorkflowError: activity"]]
    /\ fk' = [fk EXCEPT ![f].fpc = "done"]
    /\ UNCHANGED <<cfgVars, auxVars, orchVars, ledgerVars, janitor>>

\* cleanup_sandbox returns, in a run that marked the Fork FAILED when
\* Sandbox.kill raised.
CleanupDone_marks_failed(f) ==
    /\ fork[f].state = "running"
    /\ fk[f].fpc = "cleanup_sandbox"
    /\ \E ok \in BOOLEAN :
         /\ ~ok => faults > 0
         /\ faults' = IF ok THEN faults ELSE faults - 1
         /\ sandboxes' = cleanup_sandbox(sandboxes, fk[f].sandbox_id[1], ok).sandboxes
         /\ fk' = [fk EXCEPT ![f].fpc = "done",
                             ![f].status = IF ok THEN @ ELSE FAILED]
    /\ fork' = [fork EXCEPT ![f] =
                   [state |-> "returned", result |-> fk[f].result, error |-> NoValue]]
    /\ UNCHANGED <<cfgVars, auxVars, orchVars, ledgerVars, janitor>>

\* cleanup_sandbox ends, its Sandbox.kill having gone through or not (lines
\* 194-206 treat a return and an exception alike): run returns the value
\* the try or except block chose.
CleanupDone(f) ==
    /\ fork[f].state = "running"
    /\ fk[f].fpc = "cleanup_sandbox"
    /\ \E ok \in BOOLEAN :
         /\ ~ok => faults > 0
         /\ faults' = IF ok THEN faults ELSE faults - 1
         /\ sandboxes' = cleanup_sandbox(sandboxes, fk[f].sandbox_id[1], ok).sandboxes
    /\ fk' = [fk EXCEPT ![f].fpc = "done"]
    /\ fork' = [fork EXCEPT ![f] =
                   [state |-> "returned", result |-> fk[f].result, error |-> NoValue]]
    /\ UNCHANGED <<cfgVars, auxVars, orchVars, ledgerVars, janitor>>

\* The cancel_execution signal (lines 208-212), delivered while the Fork
\* workflow is open.
cancel_execution(f) ==
    /\ fork[f].state = "running"
    /\ ~fk[f].should_cancel
    /\ fk' = [fk EXCEPT ![f].should_cancel = TRUE]
    /\ UNCHANGED <<cfgVars, auxVars, orchVars, fork, ledgerVars, providerVars, janitor>>

ForkStep(f) ==
    \/ ForkRunStart(f)
    \/ GetCurrentSpendDone(f)
    \/ CreateSandboxDone(f)
    \/ HealthCheckDone(f)
    \/ RunAgentDone(f)
    \/ CleanupDone(f)

\* Mutant of update_spend: the entry is written from a value that was read
\* before another call wrote.
update_spend_stale ==
    /\ \E cost_usd \in 1..MaxCost, current \in 0..cost_tracker :
         /\ cost_tracker + cost_usd <= MaxLedger
         /\ cost_tracker' = current + cost_usd
         /\ external_spend' = external_spend + cost_usd
    /\ UNCHANGED <<cfgVars, auxVars, orchVars, fork, fk, providerVars, janitor>>

\* update_spend(workflow_id, cost_usd) (observability_activities.py:111-126),
\* an activity the worker registers (sandbox_worker.py:120): a caller adds
\* cost_usd to the ledger entry of the orchestrator.  No workflow of the
\* repository schedules it, so every call is an external one.  Its body has
\* no await: the calls of one worker process run one after the other.
update_spend ==
    /\ \E cost_usd \in 1..MaxCost :
         /\ cost_tracker + cost_usd <= MaxLedger
         /\ cost_tracker' = cost_tracker + cost_usd
         /\ external_spend' = external_spend + cost_usd
    /\ UNCHANGED <<cfgVars, auxVars, orchVars, fork, fk, providerVars, janitor>>

\* -------------------------------------------- ScheduledCleanupWorkflow

\* Mutant of find_orphaned_sandboxes: the age of a sandbox is not tested.
find_orphaned_sandboxes_any_age(S, ok) ==
    IF ok
    THEN {s \in SandboxIds : /\ S[s].state = "running"
                             /\ ~Truthy(S[s].temporal_workflow_id)}
    ELSE {}

\* find_orphaned_sandboxes (observability_activities.py:129-178) on the
\* sandboxes S: the listed (running) sandboxes started before the cutoff
\* whose metadata has no temporal_workflow_id; the empty list when the list
\* call raises (ok false).
find_orphaned_sandboxes(S, ok) ==
    IF ok
    THEN {s \in SandboxIds : /\ S[s].state = "running"
                             /\ S[s].old
                             /\ ~Truthy(S[s].temporal_workflow_id)}
    ELSE {}

\* The sandboxes after cleanup_orphaned_sandboxes
\* (observability_activities.py:181-207) whose Sandbox.kill went through for
\* the ids of K.
KillAll(S, K) ==
    [s \in SandboxIds |-> IF s \in K THEN SandboxKill(S, s, TRUE)[s] ELSE S[s]]

janitorOther == <<cfgVars, auxVars, orchVars, fork, fk, ledgerVars>>

\* The client starts the workflow (cli.py:330); run reaches its first
\* execute_activity (cleanup_workflow.py:55-66).
JanitorStart ==
    /\ janitor.jpc = "idle"
    /\ janitor' = [janitor EXCEPT !.jpc = "find_orphaned_sandboxes"]
    /\ UNCHANGED <<janitorOther, providerVars>>

\* find_orphaned_sandboxes returns: lines 68-78 and 87-94.
FindOrphansDone ==
    /\ janitor.jpc = "find_orphaned_sandboxes"
    /\ \E ok \in BOOLEAN :
         /\ ~ok => faults > 0
         /\ faults' = IF ok THEN faults ELSE faults - 1
         /\ LET orphans == find_orphaned_sandboxes(sandboxes, ok) IN
              janitor' = [janitor EXCEPT
                            !.orphans = orphans,
                            !.jpc = IF orphans # {}
                                    THEN "cleanup_orphaned_sandboxes"
                                    ELSE "sleep"]
    /\ UNCHANGED <<janitorOther, sandboxes>>

\* cleanup_orphaned_sandboxes returns the number of the Sandbox.kill calls
\* that did not raise (the ids of K): lines 80-94.
CleanupOrphansDone ==
    /\ janitor.jpc = "cleanup_orphaned_sandboxes"
    /\ \E K \in SUBSET janitor.orphans :
         /\ Cardinality(janitor.orphans \ K) <= faults
         /\ faults' = faults - Cardinality(janitor.orphans \ K)
         /\ sandboxes' = KillAll(sandboxes, K)
         /\ janitor' = [janitor EXCEPT
                          !.cleanup_count = @ + Cardinality(K),
                          !.jpc = "sleep"]
    /\ UNCHANGED janitorOther

\* workflow.sleep returns, in a run whose loop did not test should_stop.
JanitorWake_no_test ==
    /\ janitor.jpc = "sleep"
    /\ janitor' = [janitor EXCEPT !.jpc = "find_orphaned_sandboxes"]
    /\ UNCHANGED <<janitorOther, providerVars>>

\* workflow.sleep returns (line 94): the loop tests should_stop (line 55)
\* and run starts the next scan or returns its summary (lines 96-99).
JanitorWake ==
    /\ janitor.jpc = "sleep"
    /\ janitor' =
         IF janitor.should_stop
         THEN [janitor EXCEPT
                 !.jpc = "returned",
                 !.summary = Some([total_cleaned |-> janitor.cleanup_count])]
         ELSE [janitor EXCEPT !.jpc = "find_orphaned_sandboxes"]
    /\ UNCHANGED <<janitorOther, providerVars>>

\* The stop signal (lines 101-105), delivered while the workflow is open.
stop ==
    /\ janitor.jpc \notin {"idle", "returned"}
    /\ ~janitor.should_stop
    /\ janitor' = [janitor EXCEPT !.should_stop = TRUE]
    /\ UNCHANGED <<janitorOther, providerVars>>

JanitorStep ==
    \/ JanitorStart
    \/ FindOrphansDone
    \/ CleanupOrphansDone
    \/ JanitorWake

\* ------------------------------------------------------------ the provider

\* Somebody other than the workflows creates a sandbox, with no metadata.
ForeignSandbox(s) ==
    /\ s > MaxForks
    /\ sandboxes[s].state = "absent"
    /\ sandboxes' = [sandboxes EXCEPT ![s] = NewSandbox(None)]
    /\ UNCHANGED <<janitorOther, faults, janitor>>

\* Time passes: a running sandbox gets older than max_age_minutes.
SandboxAges(s) ==
    /\ sandboxes[s].state = "running"
    /\ ~sandboxes[s].old
    /\ sandboxes' = [sandboxes EXCEPT ![s].old = TRUE]
    /\ UNCHANGED <<janitorOther, faults, janitor>>

\* ---------------------------------------------------------------- signals

\* A signal reaches its handler only while the workflow is open; the runtime
\* rejects a signal sent to a workflow that has returned or failed.
Running == pc \notin {"returned", "raised"}

\* Lines 185-189.
pause ==
    /\ Len(sigLog) < MaxSignals
    /\ paused' = IF Running THEN TRUE ELSE paused
    /\ sigLog' = Append(sigLog, "pause")
    /\ UNCHANGED <<cfgVars, auxVars, forkVars, pc, i, fork_handles, j, counterVars,
                   forks_in_progress, cancelled, pending, ret, exc, fork>>

\* Lines 191-195.
resume ==
    /\ Len(sigLog) < MaxSignals
    /\ paused' = IF Running THEN FALSE ELSE paused
    /\ sigLog' = Append(sigLog, "resume")
    /\ UNCHANGED <<cfgVars, auxVars, forkVars, pc, i, fork_handles, j, counterVars,
                   forks_in_progress, cancelled, pending, ret, exc, fork>>

\* Lines 197-201.
cancel ==
    /\ Len(sigLog) < MaxSignals
    /\ cancelled' = IF Running THEN TRUE ELSE cancelled
    /\ sigLog' = Append(sigLog, "cancel")
    /\ UNCHANGED <<cfgVars, auxVars, forkVars, pc, i, fork_handles, j, counterVars,
                   forks_in_progress, paused, pending, ret, exc, fork>>

\* Lines 203-214.
get_progress ==
    [total_forks |-> num_forks,
     completed |-> forks_completed,
     failed |-> forks_failed,
     in_progress |-> forks_in_progress,
     total_cost_usd |-> total_cost,
     paused |-> paused,
     cancelled |-> cancelled]

\* ---------------------------------------------------------- specification

OrchestratorStep ==
    \/ LaunchIteration
    \/ WaitConditionMet
    \/ ChildStarted
    \/ JoinResult
    \/ JoinChildRaise
    \/ MetricsOk
    \/ MetricsRaise

Next ==
    \/ OrchestratorStep
    \/ WaitConditionTimeout
    \/ \E f \in 1..MaxForks : ForkReturn(f)
    \/ \E f \in 1..MaxForks : ForkRaise(f)
    \/ pause
    \/ resume
    \/ cancel

Spec == Init /\ [][Next]_vars

\* ------------------------------------------------------------ fairness

\* The runtime runs a workflow whose await has completed, and every Fork
\* child ends (it returns, or the runtime ends it at its execution timeout).
\* Nothing obliges a client to send a signal or a timer to expire early.
Fairness ==
    /\ WF_vars(OrchestratorStep)
    /\ WF_vars(WaitConditionTimeout)
    /\ \A f \in 1..MaxForks : WF_vars(ForkReturn(f) \/ ForkRaise(f))

FairSpec == Init /\ [][Next]_vars /\ Fairness

\* --------------------------------------------------------------- the job

\* A job with any budget whose forks are ForkWorkflow runs.  No client
\* signals it, so no wait_condition of the launch loop is ever met
\* (forks_in_progress only grows during the launch loop), the runtime
\* ends no fork before its run returns, so no handle raises, and no call of
\* the provider fails.
JobInit == (\E b \in Budgets : InitJob(b, 0)) /\ AuxIdle

JobNext ==
    \/ LaunchIteration
    \/ ChildStarted
    \/ JoinResult
    \/ MetricsOk
    \/ MetricsRaise
    \/ WaitConditionTimeout
    \/ \E f \in 1..MaxForks : ForkStep(f)
    \/ update_spend

JobSpec == JobInit /\ [][JobNext]_vars

\* ------------------------------------------- a Fork, the provider, the Janitor

\* A job of one fork, with or without a budget, on a provider of which
\* MaxFaults calls can fail, and the Janitor.  The runtime can end the Fork
\* before its run returns, and the Fork can be sent cancel_execution.
SandboxInit ==
    /\ \E b \in {None, Some(MaxBudget)} : InitJob(b, MaxFaults)
    /\ num_forks = 1
    /\ max_concurrent = 1
    /\ AuxIdle

SandboxNext ==
    \/ LaunchIteration
    \/ ChildStarted
    \/ JoinResult
    \/ JoinChildRaise
    \/ MetricsOk
    \/ MetricsRaise
    \/ \E f \in 1..MaxForks : ForkStep(f)
    \/ \E f \in 1..MaxForks : ForkRaise(f)
    \/ \E f \in 1..MaxForks : cancel_execution(f)
    \/ JanitorStep
    \/ stop
    \/ \E s \in SandboxIds : ForeignSandbox(s)
    \/ \E s \in SandboxIds : SandboxAges(s)

SandboxSpec == SandboxInit /\ [][SandboxNext]_vars

\* Activities complete and timers fire, so the Janitor, once started, takes
\* its next step; time passes, so a running sandbox gets old.  Nothing makes
\* anybody send stop or cancel_execution, end a Fork early or create a
\* sandbox, and the steps of the job are left without fairness.
SandboxFairness ==
    /\ WF_vars(JanitorStep)
    /\ WF_vars(\E s \in SandboxIds : SandboxAges(s))

FairSandboxSpec == SandboxInit /\ [][SandboxNext]_vars /\ SandboxFairness

\* ------------------------------------------- FireflyClient._request

MaxRetries == 2
MaxTokens == 2
MaxTime == 180
Tick == 30

\* The 60 s buffer of the cache test (client.py:196).
TokenBuffer == 60

\* What the server's token response can carry.
Tokens == 1..MaxTokens
ExpiresIn == {TokenBuffer, 2 * TokenBuffer}

\* The exceptions of httpx that _authenticate and _request catch.
HttpExceptions == {"TimeoutException", "NetworkError"}

\* What a POST to AUTH_URL can end with (client.py:207-232).
AuthResponses ==
    {[raises |-> x, status_code |-> 0, access_token |-> 0, expires_in |-> 0] :
        x \in HttpExceptions}
    \cup {[raises |-> NoValue, status_code |-> st, access_token |-> 0, expires_in |-> 0] :
            st \in {401, 500}}
    \cup {[raises |-> NoValue, status_code |-> 200, access_token |-> tok, expires_in |-> e] :
            tok \in Tokens, e \in ExpiresIn}

\* What a POST to the API endpoint can end with (client.py:265-303).
ApiResponses ==
    {[raises |-> x, status_code |-> 0] : x \in HttpExceptions}
    \cup {[raises |-> NoValue, status_code |-> st] :
            st \in {200, 400, 401, 403, 413, 429, 500}}

otherThanClient ==
    <<cfgVars, orchVars, fork, fk, ledgerVars, providerVars, janitor, replay>>

\* Mutant of CacheValid: the 60 s buffer is lost.
CacheValid_no_buffer(c, t) ==
    /\ Truthy(c.access_token)
    /\ t < c.token_expiry

\* The cache test of _authenticate, force_refresh apart (client.py:196),
\* at the time t.
CacheValid(c, t) ==
    /\ Truthy(c.access_token)
    /\ t < c.token_expiry - TokenBuffer

\* _request has its token and awaits the POST to the endpoint
\* (client.py:265-274).
PostApi(c) ==
    [c EXCEPT !.cpc = "api_post",
              !.posts = @ + 1,
              !.bearer = c.access_token]

\* _request(retry_count) from its start (client.py:263): _authenticate()
\* returns the cached token at once, or awaits the POST to AUTH_URL
\* (client.py:196-212).
Request(c, retry_count, t) ==
    LET d == [c EXCEPT !.retry_count = retry_count, !.force_refresh = FALSE] IN
    IF CacheValid(d, t)
    THEN PostApi(d)
    ELSE [d EXCEPT !.cpc = "auth_post", !.auth_posts = @ + 1]

\* FireflyAPIError.from_response (client.py:74-103).
from_response(status_code) ==
    CASE status_code = 400 -> [code |-> "INVALID_REQUEST", retryable |-> FALSE]
      [] status_code = 401 -> [code |-> "TOKEN_EXPIRED", retryable |-> TRUE]
      [] status_code = 403 -> [code |-> "CONTENT_POLICY", retryable |-> FALSE]
      [] status_code = 413 -> [code |-> "IMAGE_TOO_LARGE", retryable |-> FALSE]
      [] status_code = 429 -> [code |-> "RATE_LIMITED", retryable |-> TRUE]
      [] status_code >= 500 -> [code |-> "SERVER_ERROR", retryable |-> TRUE]
      [] OTHER -> [code |-> "UNKNOWN", retryable |-> FALSE]

\* A caller calls _request(endpoint, body) (client.py:245-263).
RequestStart ==
    /\ client.cpc = "idle"
    /\ client' = Request([client EXCEPT !.posts = 0, !.auth_posts = 0,
                                        !.bearer = None, !.response = None,
                                        !.auth_response = None, !.error = None],
                         0, now)
    /\ UNCHANGED <<otherThanClient, now>>

\* The POST to AUTH_URL ends (client.py:207-243).  A forced _authenticate
\* was called from line 307, and _request goes on with line 308.
AuthResponse ==
    /\ client.cpc = "auth_post"
    /\ \E r \in AuthResponses :
         LET c == [client EXCEPT !.auth_response = Some(r)] IN
         client' =
           IF r.raises # NoValue \/ r.status_code # 200
           THEN [c EXCEPT !.cpc = "raised", !.error = Some("FireflyAuthError")]
           ELSE LET d == [c EXCEPT !.access_token = Some(r.access_token),
                                   !.token_expiry = now + r.expires_in] IN
                IF c.force_refresh
                THEN Request(d, d.retry_count + 1, now)
                ELSE PostApi(d)
    /\ UNCHANGED <<otherThanClient, now>>

\* The POST to the endpoint ends (client.py:275-323).
ApiResponse ==
    /\ client.cpc = "api_post"
    /\ \E r \in ApiResponses :
         LET c == [client EXCEPT !.response = Some(r)]
             raised == [c EXCEPT !.cpc = "raised", !.error = Some("FireflyAPIError")]
             retry == IF c.retry_count < c.max_retries
                      THEN [c EXCEPT !.cpc = "sleep"]
                      ELSE raised
         IN
         client' =
           IF r.raises # NoValue THEN retry
           ELSE IF r.status_code = 200 THEN [c EXCEPT !.cpc = "returned"]
           ELSE IF from_response(r.status_code).code = "TOKEN_EXPIRED" /\ c.retry_count = 0
                THEN [c EXCEPT !.cpc = "auth_post", !.force_refresh = TRUE,
                               !.auth_posts = @ + 1]
           ELSE IF from_response(r.status_code).retryable THEN retry
           ELSE raised
    /\ UNCHANGED <<otherThanClient, now>>

\* asyncio.sleep ends and _request calls itself with retry_count + 1
\* (client.py:278-280, 289-291, 317-318).
SleepDone ==
    /\ client.cpc = "sleep"
    /\ client' = Request(client, client.retry_count + 1, now)
    /\ UNCHANGED <<otherThanClient, now>>

\* The caller has the outcome of its call; the client is free for the next.
RequestEnd ==
    /\ client.cpc \in {"returned", "raised"}
    /\ client' = [client EXCEPT !.cpc = "idle"]
    /\ UNCHANGED <<otherThanClient, now>>

\* Time passes.
TimePasses ==
    /\ now + Tick <= MaxTime
    /\ now' = now + Tick
    /\ UNCHANGED <<otherThanClient, client>>

\* A client with any max_retries, and nothing else going on.
ClientInit ==
    /\ InitJob(None, 0)
    /\ num_forks = 1
    /\ max_concurrent = 1
    /\ \E m \in 0..MaxRetries : client = NewClient(m)
    /\ now = 0
    /\ replay = [history |-> None, executions |-> <<>>]

ClientNext ==
    \/ RequestStart
    \/ AuthResponse
    \/ ApiResponse
    \/ SleepDone
    \/ RequestEnd
    \/ TimePasses

ClientSpec == ClientInit /\ [][ClientNext]_vars

\* ------------------------------------------- replays of ForkWorkflow.run

MaxClock == 2

\* The activity results one execution of run can be fed: the budget of its
\* config, what get_current_spend returned, whether create_sandbox returned
\* or raised, what health_check said, and what run_claude_agent returned or
\* raised.  An execution reads of them what its path needs.
Histories ==
    [budget : {None, Some(MaxBudget)},
     current_spend : {0, MaxBudget},
     create : {NoValue, "SandboxCreationError"},
     is_healthy : BOOLEAN,
     agent : {[raises |-> e, status |-> FAILED, cost_usd |-> 0] : e \in AgentErrors}
             \cup {[raises |-> NoValue, status |-> st, cost_usd |-> c] :
                     st \in {SUCCESS, FAILED}, c \in 0..MaxCost}]

\* The ForkResult of run (fork_workflow.py:66-189) on the history h, when
\* time.time() gives start_time at line 68 and end_time at the line that
\* computes the duration (90, 156 or 178).
ForkRun(fork_num, h, start_time, end_time) ==
    LET failed == ForkResult(fork_num, FAILED, 0, "fork error")
        result ==
          IF Truthy(h.budget) /\ BudgetExceeded(h.current_spend, h.budget[1])
          THEN ForkResult(fork_num, BUDGET_EXCEEDED, 0, "fork error")
          ELSE IF h.create # NoValue THEN failed
          ELSE IF ~h.is_healthy THEN failed
          ELSE IF h.agent.raises # NoValue THEN failed
          ELSE ForkResult(fork_num, h.agent.status, h.agent.cost_usd,
                          IF h.agent.status = SUCCESS THEN NoValue ELSE "fork error")
    IN [result |-> result, duration_seconds |-> end_time - start_time]

\* The runtime executes run on the history, first when the Fork runs and
\* again when a worker replays it; the wall clock is whatever it is then.
Execute ==
    /\ replay.history # None
    /\ Len(replay.executions) < 2
    /\ \E start_time \in 0..MaxClock : \E end_time \in start_time..MaxClock :
         replay' = [replay EXCEPT !.executions =
                       Append(@, ForkRun(1, replay.history[1], start_time, end_time))]
    /\ UNCHANGED <<cfgVars, orchVars, fork, fk, ledgerVars, providerVars,
                   janitor, client, now>>

ReplayInit ==
    /\ InitJob(None, 0)
    /\ num_forks = 1
    /\ max_concurrent = 1
    /\ client = NewClient(DefaultMaxRetries)
    /\ now = 0
    /\ \E h \in Histories : replay = [history |-> Some(h), executions |-> <<>>]

ReplayNext == Execute

ReplaySpec == ReplayInit /\ [][ReplayNext]_vars

\* ----------------------------------------------------------- properties

Range(s) == {s[k] : k \in 1..Len(s)}

RECURSIVE SumCost(_)
SumCost(s) == IF s = <<>> THEN 0 ELSE s[1].cost_usd + SumCost(Tail(s))

Returned == pc = "returned"

\* The forks whose child workflow the launch loop has asked to start.
Started == {f \in 1..MaxForks : fork[f].state # "idle"}

\* C2: the total_cost_usd of the returned OrchestrationResult is the sum of
\* cost_usd over its results, whatever the forks' outcomes and the outcomes
\* of record_metrics were.
C2_TotalCostIsSum ==
    Returned => ret.total_cost_usd = SumCost(ret.results)

\* A returned job with a positive total made of a fork that returned, a
\* child that raised and a record_metrics call that raised.
C2_Witness ==
    /\ Returned
    /\ ret.total_cost_usd > 0
    /\ \E k \in 1..Len(ret.results) : ret.results[k].error = "record_metrics"
    /\ \E k \in 1..Len(ret.results) : ret.results[k].error = "retries exhausted"
    /\ \E k \in 1..Len(ret.results) :
        ret.results[k].status = FAILED /\ ret.results[k].cost_usd > 0

\* C3: in every reachable state the counter forks_in_progress is at most
\* max_concurrent.
C3_InProgressBounded == forks_in_progress <= max_concurrent

\* The launch loop is held back by the cap: more forks to launch, the
\* counter at max_concurrent.
C3_Witness ==
    /\ pc = "slot_wait"
    /\ forks_in_progress = max_concurrent
    /\ i < num_forks

\* C5: run has never returned while a Fork child it launched is still
\* running.
C5_ReturnsAfterAllForks ==
    Returned => \A f \in Started : fork[f].state \in {"returned", "raised"}

\* run returned after joining several forks.
C5_Witness ==
    /\ Returned
    /\ Cardinality(Started) >= 2
    /\ Len(fork_handles) = Cardinality(Started)

\* The last pause or resume among the signals sent, "none" if there is none.
LastToggle(s) ==
    LET at == {k \in 1..Len(s) : s[k] \in {"pause", "resume"}}
    IN IF at = {} THEN "none"
       ELSE s[CHOOSE k \in at : \A m \in at : m <= k]

\* The returned result holds an entry for each of the num_forks forks.
ReturnedAllForks ==
    /\ Returned
    /\ \A f \in 1..num_forks :
        \E k \in 1..Len(ret.results) : ret.results[k].fork_num = f

\* C1: when run returns, results has num_forks entries and successful +
\* failed = num_forks = total_forks, for every job, whatever signals were
\* sent and whatever the forks' outcomes were.
C1_AllForksReported ==
    Returned =>
        /\ ret.total_forks = num_forks
        /\ Len(ret.results) = num_forks
        /\ ret.successful + ret.failed = num_forks

\* C4: when num_forks > max_concurrent and no pause or cancel is sent, the
\* wait for a free slot is eventually released, every fork is eventually
\* launched and run eventually returns with one result per fork (every
\* started Fork child ends: Fairness).
C4_AllForksEventuallyRun ==
    <>(\/ num_forks <= max_concurrent
       \/ \E k \in 1..Len(sigLog) : sigLog[k] \in {"pause", "cancel"}
       \/ (ReturnedAllForks /\ Started = 1..num_forks))

\* C6: the cancel flag is never reset, and once it is set no Fork child is
\* started any more, wherever in the launch loop run was when the signal
\* arrived.
C6_CancelStopsLaunches ==
    [][cancelled => (cancelled' /\ Started' = Started)]_vars

\* C7: while the orchestrator is paused and not cancelled, no step starts a
\* Fork child, and the pause and resume handlers leave the forks in flight
\* and the position of run as they are.
C7_NoLaunchWhilePaused ==
    [][/\ (paused /\ ~cancelled /\ paused' /\ ~cancelled') => Started' = Started
       /\ paused' # paused =>
            (fork' = fork /\ pc' = pc /\ forks_in_progress' = forks_in_progress)]_vars

\* run waits for the pause to clear with forks still to launch, one fork in
\* flight and another one already ended.
C7_Witness ==
    /\ pc = "pause_wait"
    /\ paused /\ ~cancelled
    /\ i < num_forks
    /\ \E f \in Started : fork[f].state = "running"
    /\ \E f \in Started : fork[f].state = "returned"

\* Signals sent: a pause, later a resume as the last pause or resume, and
\* no cancel.
PauseThenResume ==
    /\ "pause" \in Range(sigLog)
    /\ "cancel" \notin Range(sigLog)
    /\ LastToggle(sigLog) = "resume"

\* C8: resume undoes pause.  get_progress of the open workflow reports
\* paused = true exactly between a pause and the next resume; and with
\* num_forks = max_concurrent, a pause followed by a resume and no cancel,
\* every fork is eventually launched and completes and run returns.
C8_ResumeUndoesPause ==
    /\ [](Running => (get_progress.paused = (LastToggle(sigLog) = "pause")))
    /\ (num_forks = max_concurrent /\ <>[]PauseThenResume)
          => <>(ReturnedAllForks /\ Started = 1..num_forks)

\* run is paused with forks left to launch and the counter at the cap.
PausedAtCap ==
    /\ pc \in {"launch", "pause_wait", "slot_wait"}
    /\ i < num_forks
    /\ forks_in_progress = max_concurrent
    /\ paused /\ ~cancelled

\* C9: no deadlock in the launch loop.  When run was paused at the cap with
\* forks left to launch, a cancel delivered afterwards leads to run
\* returning, and a resume (with no later pause and no cancel) leads to the
\* remaining forks being launched and run returning.
C9_PauseAtCapUnblocks ==
    /\ (<>PausedAtCap /\ <>[]cancelled) => <>Returned
    /\ (<>PausedAtCap /\ <>[](~paused /\ ~cancelled))
          => <>(ReturnedAllForks /\ Started = 1..num_forks)

\* The handles the join loop is done with.
Joined == {k \in 1..Len(fork_handles) : k < j}

\* C10: a Fork child that raises becomes one FAILED ForkResult carrying its
\* fork_num and the error string; run is never left by the child's
\* exception; when every fork raised, run returns successful = 0 with one
\* result per fork; and no step changes a result already recorded.
C10_ChildFailureIsolated ==
    /\ [](\A k \in Joined :
            LET f == fork_handles[k] IN
            fork[f].state = "raised" =>
              /\ Cardinality({m \in 1..Len(results) : results[m].fork_num = f}) = 1
              /\ \E m \in 1..Len(results) :
                   results[m] = ForkResult(f, FAILED, 0, ExcMessage(fork[f].error)))
    /\ [](exc \notin ChildErrors)
    /\ []((Returned /\ \A f \in Started : fork[f].state = "raised") =>
            /\ ret.successful = 0
            /\ ret.failed = Len(fork_handles)
            /\ Len(ret.results) = Len(fork_handles))
    /\ [][\A m \in 1..Len(results) :
            Len(results') >= m /\ results'[m] = results[m]]_vars

\* run returned although each of its several forks raised.
C10_Witness ==
    /\ Returned
    /\ Cardinality(Started) >= 2
    /\ \A f \in Started : fork[f].state = "raised"
    /\ ret.successful = 0
    /\ ret.failed = Cardinality(Started)

\* The fork_nums the join loop has a result for: the handles it is done
\* with and the one whose record_metrics call it awaits.
JoinedForks ==
    {fork_handles[k] : k \in {m \in 1..Len(fork_handles) :
                                m < j \/ (m = j /\ pc = "metrics")}}

\* C11: a failure of record_metrics does not affect the result: the step
\* that ends the wait for record_metrics, whether the activity returned or
\* raised, leaves results, successful, failed and total_cost as they were
\* when the child's ForkResult was recorded.
C11_MetricsFailureIgnored ==
    [][(pc = "metrics" /\ pc' # "metrics") =>
         /\ results' = results
         /\ forks_completed' = forks_completed
         /\ forks_failed' = forks_failed
         /\ total_cost' = total_cost]_vars

\* C12: at every instant results holds exactly one entry per fork launched
\* and joined, in strictly increasing fork_num order.
C12_OneResultPerFork ==
    /\ \A a, b \in 1..Len(results) :
         a < b => results[a].fork_num < results[b].fork_num
    /\ {results[k].fork_num : k \in 1..Len(results)} = JoinedForks
    /\ Len(results) = Cardinality(JoinedForks)

\* ------------------------------------------------- properties of a Fork

\* The terminal values of ForkStatus.
TerminalStatus == {SUCCESS, FAILED, TIMEOUT, BUDGET_EXCEEDED, CANCELLED}

\* ForkWorkflow.run of fork f has returned its ForkResult.
ForkReturned(f) == fork[f].state = "returned" /\ fk[f].fpc = "done"

\* Fork f has scheduled the activity.
Invoked(f, activity) ==
    \E k \in 1..Len(fk[f].trace) : fk[f].trace[k].activity = activity

\* Fork f has scheduled cleanup_sandbox for the sandbox id it holds.
KillInvoked(f) ==
    [activity |-> "cleanup_sandbox", sandbox_id |-> fk[f].sandbox_id]
        \in Range(fk[f].trace)

C14_GuaranteedCleanup ==
    \A f \in 1..MaxForks :
        (Truthy(fk[f].sandbox_id) /\ fk[f].status \in TerminalStatus) =>
            /\ KillInvoked(f)
            /\ fk[f].trace[Len(fk[f].trace)].activity = "cleanup_sandbox"
            /\ fk[f].fpc \in {"cleanup_sandbox", "done"}
            /\ fork[f].state = "returned" => fk[f].fpc = "done"

C14_Witness ==
    \E f \in 1..MaxForks :
        /\ ForkReturned(f)
        /\ fk[f].status = FAILED
        /\ Invoked(f, "run_claude_agent")
        /\ fk[f].agent_result = None
        /\ KillInvoked(f)

\* C15: a Fork with budget_limit_usd set whose admission read of the ledger
\* returned a spend >= the budget ends BUDGET_EXCEEDED, in the step that
\* takes the read, and never invokes create_sandbox.
C15_AdmissionRefuses ==
    \A f \in 1..MaxForks :
        (/\ budget_limit_usd # None
         /\ fk[f].current_spend # None
         /\ fk[f].current_spend[1] >= budget_limit_usd[1]) =>
            /\ fk[f].status = BUDGET_EXCEEDED
            /\ ~Invoked(f, "create_sandbox")
            /\ fk[f].sandbox_id = None
            /\ ForkReturned(f)
            /\ fork[f].result.status = BUDGET_EXCEEDED

C15_Witness ==
    \E f \in 1..MaxForks :
        /\ budget_limit_usd # None
        /\ budget_limit_usd[1] > 0
        /\ fk[f].current_spend # None
        /\ fk[f].current_spend[1] >= budget_limit_usd[1]
        /\ ForkReturned(f)

\* C16: with budget_limit_usd = 0 no Fork of the job invokes create_sandbox
\* and every Fork that completes is BUDGET_EXCEEDED.
C16_ZeroBudgetAdmitsNothing ==
    budget_limit_usd = Some(0) =>
        \A f \in 1..MaxForks :
            /\ ~Invoked(f, "create_sandbox")
            /\ ForkReturned(f) => fk[f].status = BUDGET_EXCEEDED

\* The cost of the agent runs that have returned to the forks of 1..n that
\* are in the set S.
RECURSIVE AgentSpend(_, _)
AgentSpend(n, S) ==
    IF n = 0 THEN 0
    ELSE AgentSpend(n - 1, S)
         + (IF n \in S /\ fk[n].agent_result # None
            THEN fk[n].agent_result[1].cost_usd ELSE 0)

\* C17: the Fork adds the cost of its agent run to the ledger entry of the
\* orchestrator after run_claude_agent returns and before it terminates:
\* what the forks of the job added to the ledger is at least the cost of the
\* agent runs of the forks that have terminated, and at most the cost of the
\* agent runs that have returned.
C17_LedgerHoldsAgentCosts ==
    /\ AgentSpend(MaxForks, {f \in 1..MaxForks : ForkReturned(f)})
           <= cost_tracker - external_spend
    /\ cost_tracker - external_spend <= AgentSpend(MaxForks, 1..MaxForks)

\* The budget cut-off scenario in the units of the model: every agent run
\* costs ScenarioCost and the budget is reached by the second run.
ScenarioCost == MaxCost
ScenarioBudget == 2 * ScenarioCost

\* A job of at least three forks with the scenario's budget has returned;
\* nothing but its forks touched the ledger, record_metrics never failed,
\* and every Fork that was admitted ran its agent, which returned SUCCESS
\* with the scenario's cost.
BudgetScenario ==
    /\ pc = "returned"
    /\ budget_limit_usd = Some(ScenarioBudget)
    /\ num_forks >= 3
    /\ external_spend = 0
    /\ Len(results) = num_forks
    /\ \A f \in 1..num_forks :
         Invoked(f, "create_sandbox") =>
            fk[f].agent_result =
                Some([status |-> SUCCESS, cost_usd |-> ScenarioCost])

\* C18: in the budget cut-off scenario forks 1 and 2 succeed and every later
\* fork is BUDGET_EXCEEDED with no sandbox created, so that successful = 2,
\* failed = num_forks - 2 and total_cost_usd is the cost of two agent runs,
\* whatever the interleaving of the forks.
C18_BudgetCutOff ==
    BudgetScenario =>
        /\ ret.successful = 2
        /\ ret.failed = num_forks - 2
        /\ ret.total_cost_usd = 2 * ScenarioCost
        /\ \A f \in 1..num_forks :
             IF f <= 2
             THEN fork[f].result.status = SUCCESS
             ELSE /\ fork[f].result.status = BUDGET_EXCEEDED
                  /\ ~Invoked(f, "create_sandbox")

\* The place of an activity in the order of ForkWorkflow.run.
ActivityRank(activity) ==
    CASE activity = "get_current_spend" -> 0
      [] activity = "create_sandbox" -> 1
      [] activity = "health_check" -> 2
      [] activity = "run_claude_agent" -> 3
      [] activity = "cleanup_sandbox" -> 4

\* C19: within a Fork the activities are strictly serial in the order
\* create_sandbox, health_check, run_claude_agent, cleanup_sandbox: the
\* trace is in that order with no activity twice, only the last activity
\* scheduled can be pending, health_check and run_claude_agent are given the
\* sandbox id create_sandbox returned, each follows the activity before it,
\* and cleanup_sandbox is scheduled only when no agent run is pending.
C19_ActivitiesSerial ==
    \A f \in 1..MaxForks :
        LET t == fk[f].trace IN
        /\ \A a, b \in 1..Len(t) :
             a < b => ActivityRank(t[a].activity) < ActivityRank(t[b].activity)
        /\ fk[f].fpc \notin {"pending", "done"} =>
             (t # <<>> /\ t[Len(t)].activity = fk[f].fpc)
        /\ fk[f].fpc \in {"pending", "done"} =>
             (fk[f].fpc = "pending" <=> t = <<>>)
        /\ \A k \in 1..Len(t) :
             /\ t[k].activity \in {"health_check", "run_claude_agent"} =>
                  /\ t[k].sandbox_id = Some(f)
                  /\ k > 1
                  /\ ActivityRank(t[k - 1].activity) = ActivityRank(t[k].activity) - 1
             /\ t[k].activity = "cleanup_sandbox" =>
                  /\ t[k].sandbox_id = Some(f)
                  /\ Invoked(f, "create_sandbox")
                  /\ fk[f].fpc # "run_claude_agent"

C19_Witness ==
    \E f \in 1..MaxForks :
        /\ ForkReturned(f)
        /\ Len(fk[f].trace) = 5
        /\ fk[f].status = SUCCESS

\* C20: when health_check returns is_healthy = false for the sandbox
\* create_sandbox returned, the Fork becomes FAILED and schedules
\* cleanup_sandbox for that sandbox id in the step that takes the result,
\* a step that changes no other fork and no result of the job; the Fork
\* never invokes run_claude_agent and the ForkResult it returns is FAILED.
C20_UnhealthySandbox ==
    /\ [][\A f \in 1..MaxForks :
            (fk[f].health = None /\ fk'[f].health = Some(FALSE)) =>
                /\ fk'[f].status = FAILED
                /\ fk'[f].fpc = "cleanup_sandbox"
                /\ fk'[f].trace =
                     Append(fk[f].trace, [activity |-> "cleanup_sandbox",
                                          sandbox_id |-> Some(f)])
                /\ \A g \in 1..MaxForks \ {f} :
                     fk'[g] = fk[g] /\ fork'[g] = fork[g]
                /\ results' = results]_vars
    /\ [](\A f \in 1..MaxForks :
            fk[f].health = Some(FALSE) =>
                /\ fk[f].status = FAILED
                /\ ~Invoked(f, "run_claude_agent")
                /\ KillInvoked(f)
                /\ fork[f].state = "returned" =>
                     fork[f].result.status = FAILED)

C20_Witness ==
    \E f, g \in 1..MaxForks :
        /\ ForkReturned(f)
        /\ fk[f].health = Some(FALSE)
        /\ KillInvoked(f)
        /\ f < g
        /\ pc = "returned"
        /\ Len(results) = 2
        /\ results[1].status = FAILED
        /\ results[2].status = SUCCESS

\* ------------------------------------------------------------------- C21

\* C21: a Fork whose run_claude_agent raised AgentTimeoutError has the
\* status TIMEOUT and the cost 0, and once it has returned, its result has
\* that status and cleanup_sandbox was invoked on its sandbox.
C21_AgentTimeoutIsTimeout ==
    \A f \in 1..MaxForks :
        fk[f].caught = Some("AgentTimeoutError") =>
            /\ fk[f].status = TIMEOUT
            /\ fk[f].cost_usd = 0
            /\ ForkReturned(f) =>
                 /\ fk[f].result.status = TIMEOUT
                 /\ KillInvoked(f)

\* ------------------------------------------------------------------- C22

Cancellable == {"create_sandbox", "health_check", "run_claude_agent"}

\* C22: a Fork that has received cancel_execution schedules none of
\* create_sandbox, health_check and run_claude_agent afterwards, and when it
\* has returned its status is CANCELLED unless it had ended before.
C22_CancelledForkSchedulesNothing ==
    [][\A f \in 1..MaxForks :
          fk[f].should_cancel =>
              /\ Len(fk'[f].trace) > Len(fk[f].trace) =>
                     fk'[f].trace[Len(fk'[f].trace)].activity \notin Cancellable
              /\ (fk[f].status = RUNNING /\ fk'[f].status # RUNNING) =>
                     fk'[f].status = CANCELLED]_vars

\* ------------------------------------------------------------------- C24

\* C24: a Fork that has returned and whose sandbox is running at the
\* provider leads to that sandbox not running, as long as the Janitor is not
\* told to stop.
C24_NoSandboxLeak ==
    \A f \in 1..MaxForks :
        (ForkReturned(f) /\ sandboxes[f].state = "running")
            ~> (sandboxes[f].state # "running" \/ janitor.should_stop)

\* ------------------------------------------------------------------- C25

\* C25: a sandbox carrying the temporal_workflow_id of a Fork that the
\* runtime ended before its run returned gets into the Janitor's list of
\* orphans, and leads to the sandbox being killed, as long as the Janitor is
\* not told to stop.
C25_OrphanReclaim ==
    \A f \in 1..MaxForks :
        (/\ fork[f].state = "raised"
         /\ sandboxes[f].state = "running"
         /\ sandboxes[f].temporal_workflow_id = Some(f))
            ~> (f \in janitor.orphans \/ sandboxes[f].kills > 0 \/ janitor.should_stop)

\* ------------------------------------------------------------------- C23

\* C23: a status of a Fork that is SUCCESS, FAILED, TIMEOUT, CANCELLED or
\* BUDGET_EXCEEDED never changes again; no sandbox is killed twice; and the
\* Janitor lists no sandbox that carries a temporal_workflow_id, so it
\* kills none that a Fork's cleanup_sandbox is given.
C23_TerminalOnce ==
    /\ [][\A f \in 1..MaxForks :
             fk[f].status \in TerminalStatus => fk'[f].status = fk[f].status]_vars
    /\ [](\A s \in SandboxIds : sandboxes[s].kills <= 1)
    /\ [](\A s \in janitor.orphans : sandboxes[s].temporal_workflow_id = None)

\* A Fork ended SUCCESS, its Sandbox.kill raised, and it has returned; the
\* Janitor has killed a sandbox.
C23_Witness ==
    \E f \in 1..MaxForks :
        /\ ForkReturned(f)
        /\ fk[f].status = SUCCESS
        /\ KillInvoked(f)
        /\ sandboxes[f].state = "running"
        /\ janitor.cleanup_count > 0

\* ------------------------------------------------------------------- C26

\* C26: when the sleep that follows a scan ends, one scan interval after
\* the scan listed its orphans, none of the sandboxes it listed is running.
C26_OrphanKilledWithinInterval ==
    [][(janitor.jpc = "sleep" /\ janitor'.jpc # "sleep") =>
          \A s \in janitor.orphans : sandboxes[s].state # "running"]_vars

\* ------------------------------------------------------------------- C27

\* C27: once stop is delivered the Janitor starts no find_orphaned_sandboxes;
\* the scan that stop finds in progress goes on to its
\* cleanup_orphaned_sandboxes and its sleep, and run returns only from the
\* sleep; the summary it returns has total_cleaned = cleanup_count; and a
\* stopped Janitor does return.
C27_StopBetweenIntervals ==
    /\ [][janitor.should_stop =>
            /\ janitor'.jpc = "find_orphaned_sandboxes" =>
                   janitor.jpc = "find_orphaned_sandboxes"
            /\ (janitor.jpc = "find_orphaned_sandboxes" /\ janitor'.jpc # janitor.jpc) =>
                   janitor'.jpc = IF janitor'.orphans # {}
                                  THEN "cleanup_orphaned_sandboxes" ELSE "sleep"
            /\ (janitor.jpc = "cleanup_orphaned_sandboxes" /\ janitor'.jpc # janitor.jpc) =>
                   janitor'.jpc = "sleep"]_vars
    /\ [][(janitor.jpc # "returned" /\ janitor'.jpc = "returned") =>
            /\ janitor.jpc = "sleep"
            /\ janitor.should_stop
            /\ janitor'.summary = Some([total_cleaned |-> janitor.cleanup_count])
            /\ janitor'.cleanup_count = janitor.cleanup_count]_vars
    /\ janitor.should_stop ~> janitor.jpc = "returned"

\* The Janitor was told to stop and has returned a summary that counts a
\* sandbox it killed.
C27_Witness ==
    /\ janitor.jpc = "returned"
    /\ janitor.should_stop
    /\ janitor.summary = Some([total_cleaned |-> 1])
    /\ \E s \in SandboxIds : sandboxes[s].temporal_workflow_id = None /\ sandboxes[s].kills = 1

\* ------------------------------------------------------------------- C28

\* C28: on the sandboxes of any reachable state, for any sandbox id and
\* whatever Sandbox.kill does in either call, cleanup_sandbox returns true
\* both times, leaves the sandbox not running, and its second application
\* changes nothing.
C28_CleanupIdempotent ==
    \A s \in SandboxIds : \A ok1 \in BOOLEAN, ok2 \in BOOLEAN :
        LET once  == cleanup_sandbox(sandboxes, s, ok1)
            twice == cleanup_sandbox(once.sandboxes, s, ok2)
        IN  /\ once.returned
            /\ twice.returned
            /\ once.sandboxes[s].state # "running"
            /\ twice.sandboxes = once.sandboxes

\* ------------------------------------------------------------------- C29

\* C29: a Fork whose latest attempt of create_sandbox met a transient error,
\* with attempts of its retry policy left, is still running and awaiting
\* create_sandbox; one whose attempt met a structural error has failed.
C29_TransientCreateRetried ==
    \A f \in 1..MaxForks :
        LET a == fk[f].create_attempts IN
        a # <<>> =>
            /\ (/\ a[Len(a)].error = Some("transient")
                /\ Len(a) < CreateRetryPolicy.maximum_attempts)
                   => (fk[f].fpc = "create_sandbox" /\ fk[f].status = RUNNING)
            /\ a[Len(a)].error = Some("structural")
                   => (fk[f].status = FAILED /\ Len(a) = 1)

\* ------------------------------------------------------------------- C30

\* C30: with max_concurrent = 1, a fork is started only when the fork
\* before it has ended, and, unless pause or cancel is sent, every one of
\* the num_forks forks gets started and ends.
C30_SerialExecution ==
    max_concurrent = 1 =>
        /\ [](\A f \in 2..MaxForks :
                 fork[f].state # "idle" => fork[f - 1].state \in {"returned", "raised"})
        /\ <>(\/ \E k \in 1..Len(sigLog) : sigLog[k] \in {"pause", "cancel"}
              \/ \A f \in 1..num_forks : fork[f].state \in {"returned", "raised"})

\* ------------------------------------------------------------------- C31

\* C31: every step of run that appends a ForkResult to results schedules
\* record_metrics with that result.
C31_MetricsForEveryResult ==
    [][Len(results') > Len(results) =>
          /\ pc' = "metrics"
          /\ pending' = results'[Len(results')]]_vars

\* ------------------------------------------------------------------- C36

\* A token is cached and the time is more than 60 s before its expiry.
TokenFresh == client.access_token # None /\ client.token_expiry - now > 60

\* C36: an _authenticate() without force_refresh (at the start of every
\* _request) with a cached token and more than 60 s to its expiry issues no
\* POST to AUTH_URL, leaves the cache alone and hands out the cached token;
\* otherwise, and whenever force_refresh is set, it issues the POST; and a
\* token response replaces the cached token and the expiry, while a failed
\* POST raises and leaves them.
C36_TokenCaching ==
    /\ [][(client.cpc \in {"idle", "sleep"} /\ client'.cpc # client.cpc) =>
            LET before == IF client.cpc = "idle" THEN 0 ELSE client.auth_posts IN
            IF TokenFresh
            THEN /\ client'.cpc = "api_post"
                 /\ client'.auth_posts = before
                 /\ client'.bearer = client.access_token
                 /\ client'.access_token = client.access_token
                 /\ client'.token_expiry = client.token_expiry
            ELSE /\ client'.cpc = "auth_post"
                 /\ client'.auth_posts = before + 1]_vars
    /\ [][(client.cpc = "api_post" /\ client'.cpc = "auth_post") =>
            /\ client'.force_refresh
            /\ client'.auth_posts = client.auth_posts + 1]_vars
    /\ [][(client.cpc = "auth_post" /\ client' # client) =>
            LET r == client'.auth_response[1] IN
            IF r.raises = NoValue /\ r.status_code = 200
            THEN /\ client'.access_token = Some(r.access_token)
                 /\ client'.token_expiry = now + r.expires_in
                 /\ client'.cpc \in {"api_post", "auth_post"}
            ELSE /\ client'.cpc = "raised"
                 /\ client'.access_token = client.access_token
                 /\ client'.token_expiry = client.token_expiry]_vars

\* A _request got its token from the cache, some time after the token was
\* fetched, and has posted with it.
C36_Witness ==
    /\ client.cpc = "api_post"
    /\ client.retry_count = 0
    /\ client.auth_posts = 0
    /\ client.bearer = client.access_token
    /\ client.bearer # None
    /\ now > 0

\* ------------------------------------------------------------------- C39

\* C39: a call of _request has issued at most max_retries + 1 POSTs to the
\* endpoint, and a call that a 400, 403 or 413 ended on its first response
\* has issued one.
C39_RequestBounded ==
    /\ client.posts <= client.max_retries + 1
    /\ (/\ client.cpc = "raised"
        /\ client.response # None
        /\ client.retry_count = 0) =>
           (client.response[1].status_code \in {400, 403, 413} => client.posts = 1)

\* ------------------------------------------------------------------- C32

\* C32: two executions of run on the same history have returned the same
\* ForkResult, in every field.
C32_ForkDeterminism ==
    Len(replay.executions) = 2 => replay.executions[1] = replay.executions[2]

\* ------------------------------------------------------------------- C33

\* C33: the ledger entry is the sum of the costs the update_spend calls
\* added, whatever their order; it never decreases, it changes only by what
\* an update_spend call adds, and a get_current_spend returns the entry and
\* leaves it unchanged.
C33_LedgerSerialized ==
    /\ [](cost_tracker = external_spend)
    /\ [][/\ cost_tracker' >= cost_tracker
          /\ cost_tracker' - cost_tracker = external_spend' - external_spend]_vars
    /\ [][\A f \in 1..MaxForks :
            (fk[f].fpc = "get_current_spend" /\ fk'[f] # fk[f]) =>
                /\ cost_tracker' = cost_tracker
                /\ fk'[f].current_spend = Some(cost_tracker)]_vars

\* Two update_spend calls have added to the entry, and a Fork read it
\* between them.
C33_Witness ==
    /\ cost_tracker = 2 * MaxCost
    /\ \E f \in 1..MaxForks : fk[f].current_spend = Some(MaxCost)

\* ------------------------------------------------------------------- C34

\* C34: the step that ends the cleanup_sandbox of a Fork, whether the kill
\* went through or not, makes run return the ForkResult its try or except
\* block chose, leaves the status and the cost of the Fork as they were,
\* and does not make the Fork raise.
C34_CleanupFailureIgnored ==
    [][\A f \in 1..MaxForks :
          (fk[f].fpc = "cleanup_sandbox" /\ fk'[f].fpc # "cleanup_sandbox") =>
              /\ fk'[f].fpc = "done"
              /\ fork'[f].state = "returned"
              /\ fork'[f].result = fk[f].result
              /\ fk'[f].result = fk[f].result
              /\ fk'[f].status = fk[f].status
              /\ fk'[f].cost_usd = fk[f].cost_usd]_vars

\* A Fork has returned its agent's FAILED result with its cost, and the
\* sandbox it tried to kill is still running.
C34_Witness ==
    \E f \in 1..MaxForks :
        /\ fork[f].state = "returned"
        /\ fork[f].result = ForkResult(f, FAILED, MaxCost, "fork error")
        /\ fk[f].agent_result # None
        /\ KillInvoked(f)
        /\ sandboxes[f].state = "running"

\* ------------------------------------------------------------------- C35

\* The values of config.branch, and of the id of the orchestrator.
Branches == {<<"m">>, <<"m", "-", "1">>, <<"m", "-">>}

\* C35: the forks launched so far are forks 1, 2, ... in this order; with
\* num_forks = 1 the fork has the branch of the job; with more, fork i has
\* the branch followed by -<i>; and the branches, and the child workflow
\* ids, of two forks of the job differ.
C35_BranchNaming ==
    /\ \A k \in 1..Len(fork_handles) : fork_handles[k] = k
    /\ \A b \in Branches :
        /\ num_forks = 1 =>
              \A k \in 1..Len(fork_handles) : fork_branch(b, fork_handles[k], num_forks) = b
        /\ num_forks > 1 =>
              \A k \in 1..Len(fork_handles) :
                  fork_branch(b, fork_handles[k], num_forks) = b \o <<"-">> \o Str(k)
        /\ \A k, l \in 1..Len(fork_handles) :
              k # l =>
                 /\ fork_branch(b, fork_handles[k], num_forks)
                      # fork_branch(b, fork_handles[l], num_forks)
                 /\ child_id(b, fork_handles[k]) # child_id(b, fork_handles[l])

\* All the forks of a job of several forks have been launched.
C35_Witness ==
    /\ num_forks = MaxForks
    /\ Len(fork_handles) = MaxForks
    /\ fork_branch(<<"m">>, fork_handles[MaxForks], num_forks) = <<"m", "-">> \o Str(MaxForks)

\* ------------------------------------------------------------------- C37

\* The running sandboxes that are older than the cutoff and carry no
\* temporal_workflow_id.
OldAndUnowned ==
    {s \in SandboxIds : /\ sandboxes[s].state = "running"
                        /\ sandboxes[s].old
                        /\ sandboxes[s].temporal_workflow_id = None}

\* C37: what a scan hands to the kill step is the set of the listed
\* sandboxes that are old and unowned (nothing when the list call failed);
\* and the kill step changes no sandbox outside that set, none that carries
\* a temporal_workflow_id and none that is not older than max_age_minutes.
C37_JanitorKillsOnlyOrphans ==
    /\ [][(janitor.jpc = "find_orphaned_sandboxes" /\ janitor'.jpc # janitor.jpc) =>
            /\ janitor'.orphans \in {OldAndUnowned, {}}
            /\ janitor'.jpc = "cleanup_orphaned_sandboxes" <=> janitor'.orphans # {}]_vars
    /\ [][(janitor.jpc = "cleanup_orphaned_sandboxes" /\ janitor'.jpc # janitor.jpc) =>
            \A s \in SandboxIds :
                sandboxes'[s] # sandboxes[s] =>
                    /\ s \in janitor.orphans
                    /\ sandboxes[s].old
                    /\ sandboxes[s].temporal_workflow_id = None]_vars
    /\ [](\A s \in SandboxIds :
            (sandboxes[s].temporal_workflow_id # None \/ ~sandboxes[s].old) =>
                s \notin janitor.orphans)

\* The Janitor is about to kill the orphans of a scan, which left out the
\* old running sandbox of a Fork.
C37_Witness ==
    /\ janitor.jpc = "cleanup_orphaned_sandboxes"
    /\ janitor.orphans # {}
    /\ \E f \in 1..MaxForks :
         /\ sandboxes[f].state = "running"
         /\ sandboxes[f].old
         /\ sandboxes[f].temporal_workflow_id # None
         /\ f \notin janitor.orphans

\* ------------------------------------------------------------------- C38

\* C38: in every state, what get_progress returns has in_progress >= 0,
\* completed + failed = len(results) and
\* completed + failed + in_progress <= total_forks, and in_progress = 0
\* once run has returned.
C38_ProgressConsistent ==
    LET p == get_progress IN
    /\ p.in_progress >= 0
    /\ p.completed + p.failed = Len(results)
    /\ p.completed + p.failed + p.in_progress <= p.total_forks
    /\ Returned => p.in_progress = 0

====
